---- MODULE Spec2Model ----
(***************************************************************************)
(* A model of the pyascent front end: the Pratt parser of Parser.py, the   *)
(* scope chain of Environment.py and the lowering pass of Compiler.py      *)
(* (with the part of the llvmlite IRBuilder the pass drives).              *)
(***************************************************************************)
EXTENDS Integers, Sequences, FiniteSets, TLC

VARIABLES
    \* ---- Parser.py ----
    tokens,      \* what the lexer hands out, without the trailing EOF
    pos,         \* index of Parser.current_token (peek_token is pos + 1)
    perrors,     \* Parser.errors
    program,     \* Program.statements built so far
    pdone,       \* parse_program has returned
    \* ---- Compiler.py ----
    blocks,      \* every ir.Block created, in creation order
    cursor,      \* Compiler.builder: index of builder.block, 0 = no block
    envs,        \* every Environment created, in creation order
    env,         \* Compiler.env: index of the current frame
    globals,     \* names in ir.Module.globals
    errors,      \* Compiler.errors
    stack,       \* the pending visit_* activations (Python call stack)
    node,        \* the statement node handed to the last visit_* call
    op,          \* name of the last step taken
    nextId,      \* next fresh ir.Value identity
    nstmts,      \* statements handed to compile() so far
    crashed,     \* an exception left Compiler.compile
    \* ---- main.py ----
    stage,       \* where the driver is; "none" when no driver runs
    todo,        \* the statements the loops of the running compile() have
                 \* still to hand over, innermost loop last
    \* ---- Environment.py ----
    returned     \* what the last call of define or lookup made on a frame
                 \* from outside the Compiler returned

pvars == <<tokens, pos, perrors, program, pdone>>
cvars == <<blocks, cursor, envs, env, globals, errors, stack, node, op,
           nextId, nstmts, crashed>>
dvars == <<stage, todo>>
vars == <<tokens, pos, perrors, program, pdone, blocks, cursor, envs, env,
          globals, errors, stack, node, op, nextId, nstmts, crashed, stage,
          todo, returned>>

(***************************************************************************)
(*                              Token.py                                   *)
(***************************************************************************)
Token(tt, lit) == [type |-> tt, literal |-> lit]

EOF == Token("EOF", "")

\* Lexer.next_token as the parser sees it: the tokens in order, then EOF
\* for ever.
TokAt(i) == IF i >= 1 /\ i <= Len(tokens) THEN tokens[i] ELSE EOF

(***************************************************************************)
(*                              Parser.py                                  *)
(***************************************************************************)
P_LOWEST == 0
P_EQUALS == 1
P_LESSGREATER == 2
P_SUM == 3
P_PRODUCT == 4
P_EXPONENT == 5

\* A variant of the table that files * with the sums.
PRECEDENCES_flat(tt) ==
    CASE tt = "PLUS" -> P_SUM
      [] tt = "MINUS" -> P_SUM
      [] tt = "SLASH" -> P_PRODUCT
      [] tt = "ASTERISK" -> P_SUM
      [] tt = "MODULUS" -> P_PRODUCT
      [] tt = "POW" -> P_EXPONENT
      [] OTHER -> P_LOWEST

\* PRECEDENCES.get(tt), with P_LOWEST for a token type the table lacks
\* (current_precedence / peek_precedence).
PRECEDENCES(tt) ==
    CASE tt = "PLUS" -> P_SUM
      [] tt = "MINUS" -> P_SUM
      [] tt = "SLASH" -> P_PRODUCT
      [] tt = "ASTERISK" -> P_PRODUCT
      [] tt = "MODULUS" -> P_PRODUCT
      [] tt = "POW" -> P_EXPONENT
      [] OTHER -> P_LOWEST

prefix_parse_fns == {"IDENT", "INT", "FLOAT", "LPAREN"}

infix_parse_fns == {"PLUS", "MINUS", "SLASH", "ASTERISK", "POW", "MODULUS"}

None == [type |-> "None"]

\* Parser diagnostics: the message text is kept as its parts.
peek_error(tt, got) == [kind |-> "Expected", want |-> tt, got |-> got]

no_prefix_parse_fn_error(tt) == [kind |-> "NoPrefix", want |-> "", got |-> tt]

\* int(literal) on the digit strings the lexer produces.
IntOf(lit) ==
    CASE lit = "1" -> 1
      [] lit = "2" -> 2
      [] lit = "3" -> 3
      [] lit = "4" -> 4
      [] OTHER -> -1

IntegerLiteral(v) == [type |-> "IntegerLiteral", value |-> v]

FloatLiteral(v) == [type |-> "FloatLiteral", value |-> v]

IdentifierLiteral(v) == [type |-> "IdentifierLiteral", value |-> v]

InfixExpression(l, o, r) ==
    [type |-> "InfixExpression", left_node |-> l, operator |-> o,
     right_node |-> r]

\* The result of a parse method: the node it returns and the parser state
\* (position, errors) it leaves.
PR(n, p, e) == [node |-> n, pos |-> p, errors |-> e]

\* expect_peek(tt) from position p: advance on a match, else record the
\* diagnostic and stay.
expect_peek_ok(p, tt) == TokAt(p + 1).type = tt

expect_peek_err(p, e, tt) == Append(e, peek_error(tt, TokAt(p + 1).type))

parse_int_literal(p, e) ==
    IF IntOf(TokAt(p).literal) >= 0
    THEN PR(IntegerLiteral(IntOf(TokAt(p).literal)), p, e)
    ELSE PR(None, p, Append(e, [kind |-> "BadInt", want |-> "",
                                got |-> TokAt(p).literal]))

\* float(literal) on the decimal strings the lexer produces, in tenths.
FloatOf(lit) ==
    CASE lit = "1.0" -> 10
      [] lit = "1.5" -> 15
      [] lit = "2.0" -> 20
      [] OTHER -> -1

parse_float_literal(p, e) ==
    IF FloatOf(TokAt(p).literal) >= 0
    THEN PR(FloatLiteral(FloatOf(TokAt(p).literal)), p, e)
    ELSE PR(None, p, Append(e, [kind |-> "BadFloat", want |-> "",
                                got |-> TokAt(p).literal]))

parse_identifier(p, e) == PR(IdentifierLiteral(TokAt(p).literal), p, e)

\* The element of a set of one element. A parse result that is read more
\* than once is bound as the element of a set, which works it out once.
Only(S) == CHOOSE x \in S : TRUE

RECURSIVE parse_expression(_, _, _)
RECURSIVE infix_loop(_, _)
RECURSIVE infix_loop_le(_, _)
RECURSIVE parse_infix_expression(_, _)
RECURSIVE parse_grouped_expression(_, _)
RECURSIVE parse_expression_silent(_, _, _)

parse_grouped_expression(p, e) ==
    Only({IF expect_peek_ok(r.pos, "RPAREN")
          THEN PR(r.node, r.pos + 1, r.errors)
          ELSE PR(None, r.pos, expect_peek_err(r.pos, r.errors, "RPAREN")) :
          r \in {parse_expression(p + 1, e, P_LOWEST)}})

\* Called with current_token on the operator (position r.pos).
parse_infix_expression(r, left) ==
    LET precedence == PRECEDENCES(TokAt(r.pos).type) IN
    Only({PR(InfixExpression(left, TokAt(r.pos).literal, rhs.node),
             rhs.pos, rhs.errors) :
          rhs \in {parse_expression(r.pos + 1, r.errors, precedence)}})

\* A variant of the loop that also continues on an equal precedence.
infix_loop_le(r, precedence) ==
    IF TokAt(r.pos + 1).type # "SEMICOLON"
       /\ precedence <= PRECEDENCES(TokAt(r.pos + 1).type)
       /\ TokAt(r.pos + 1).type \in infix_parse_fns
    THEN Only({infix_loop_le(nx, precedence) :
               nx \in {parse_infix_expression(PR(r.node, r.pos + 1, r.errors),
                                              r.node)}})
    ELSE r

\* The while loop of parse_expression, r.node being left_expr.
infix_loop(r, precedence) ==
    IF TokAt(r.pos + 1).type # "SEMICOLON"
       /\ precedence < PRECEDENCES(TokAt(r.pos + 1).type)
    THEN IF TokAt(r.pos + 1).type \notin infix_parse_fns
         THEN r
         ELSE Only({infix_loop(nx, precedence) :
                    nx \in {parse_infix_expression(
                               PR(r.node, r.pos + 1, r.errors), r.node)}})
    ELSE r

\* A variant that reports no missing prefix function.
parse_expression_silent(p, e, precedence) ==
    LET tt == TokAt(p).type IN
    IF tt \notin prefix_parse_fns
    THEN PR(None, p, e)
    ELSE Only({infix_loop(left, precedence) :
               left \in {CASE tt = "IDENT" -> parse_identifier(p, e)
                           [] tt = "INT" -> parse_int_literal(p, e)
                           [] tt = "FLOAT" -> parse_float_literal(p, e)
                           [] tt = "LPAREN" -> parse_grouped_expression(p, e)}})

parse_expression(p, e, precedence) ==
    LET tt == TokAt(p).type IN
    IF tt \notin prefix_parse_fns
    THEN PR(None, p, Append(e, no_prefix_parse_fn_error(tt)))
    ELSE Only({infix_loop(left, precedence) :
               left \in {CASE tt = "IDENT" -> parse_identifier(p, e)
                           [] tt = "INT" -> parse_int_literal(p, e)
                           [] tt = "FLOAT" -> parse_float_literal(p, e)
                           [] tt = "LPAREN" -> parse_grouped_expression(p, e)}})

ExpressionStatement(expr) == [type |-> "ExpressionStatement", expr |-> expr]

VarStatement(name, value, value_type) ==
    [type |-> "VarStatement", name |-> name, value |-> value,
     value_type |-> value_type]

ReturnStatement(v) == [type |-> "ReturnStatement", return_value |-> v]

AssignStatement(ident, v) ==
    [type |-> "AssignStatement", ident |-> ident, right_value |-> v]

BlockStatement(stmts) == [type |-> "BlockStatement", statements |-> stmts]

FunctionStatement(name, return_type, body) ==
    [type |-> "FunctionStatement", name |-> name, parameters |-> <<>>,
     return_type |-> return_type, body |-> body]

parse_expression_statement(p, e) ==
    LET r == parse_expression(p, e, P_LOWEST) IN
    PR(ExpressionStatement(r.node),
       IF TokAt(r.pos + 1).type = "SEMICOLON" THEN r.pos + 1 ELSE r.pos,
       r.errors)

\* The trailing loop of parse_var_statement: advance until current_token
\* is a SEMICOLON or EOF.
RECURSIVE skip_to_semicolon(_)
skip_to_semicolon(p) ==
    IF TokAt(p).type \in {"SEMICOLON", "EOF"} THEN p
    ELSE skip_to_semicolon(p + 1)

parse_var_statement(p, e) ==
    IF ~expect_peek_ok(p, "IDENT")
    THEN PR(None, p, expect_peek_err(p, e, "IDENT"))
    ELSE IF ~expect_peek_ok(p + 1, "COLON")
    THEN PR(None, p + 1, expect_peek_err(p + 1, e, "COLON"))
    ELSE IF ~expect_peek_ok(p + 2, "TYPE")
    THEN PR(None, p + 2, expect_peek_err(p + 2, e, "TYPE"))
    ELSE IF ~expect_peek_ok(p + 3, "EQ")
    THEN PR(None, p + 3, expect_peek_err(p + 3, e, "EQ"))
    ELSE LET r == parse_expression(p + 5, e, P_LOWEST) IN
         PR(VarStatement(IdentifierLiteral(TokAt(p + 1).literal), r.node,
                         TokAt(p + 3).literal),
            skip_to_semicolon(r.pos), r.errors)

parse_return_statement(p, e) ==
    LET r == parse_expression(p + 1, e, P_LOWEST) IN
    IF expect_peek_ok(r.pos, "SEMICOLON")
    THEN PR(ReturnStatement(r.node), r.pos + 1, r.errors)
    ELSE PR(None, r.pos, expect_peek_err(r.pos, r.errors, "SEMICOLON"))

parse_assignment_statement(p, e) ==
    LET r == parse_expression(p + 2, e, P_LOWEST) IN
    PR(AssignStatement(IdentifierLiteral(TokAt(p).literal), r.node),
       r.pos + 1, r.errors)

RECURSIVE parse_statement(_, _)
RECURSIVE parse_function_statement(_, _)
RECURSIVE parse_block_statement(_, _)
RECURSIVE block_loop(_, _, _)

\* The while loop of parse_block_statement; r, the statement parsed, is
\* worked out once per iteration.
block_loop(p, e, stmts) ==
    IF TokAt(p).type \in {"RBRACE", "EOF"}
    THEN PR(BlockStatement(stmts), p, e)
    ELSE Only({block_loop(r.pos + 1, r.errors,
                          IF r.node # None THEN Append(stmts, r.node)
                          ELSE stmts) : r \in {parse_statement(p, e)}})

parse_block_statement(p, e) == block_loop(p + 1, e, <<>>)

parse_function_statement(p, e) ==
    IF ~expect_peek_ok(p, "IDENT")
    THEN PR(None, p, expect_peek_err(p, e, "IDENT"))
    ELSE IF ~expect_peek_ok(p + 1, "LPAREN")
    THEN PR(None, p + 1, expect_peek_err(p + 1, e, "LPAREN"))
    ELSE IF ~expect_peek_ok(p + 2, "RPAREN")
    THEN PR(None, p + 2, expect_peek_err(p + 2, e, "RPAREN"))
    ELSE IF ~expect_peek_ok(p + 3, "ARROW")
    THEN PR(None, p + 3, expect_peek_err(p + 3, e, "ARROW"))
    ELSE IF ~expect_peek_ok(p + 4, "TYPE")
    THEN PR(None, p + 4, expect_peek_err(p + 4, e, "TYPE"))
    ELSE IF ~expect_peek_ok(p + 5, "LBRACE")
    THEN PR(None, p + 5, expect_peek_err(p + 5, e, "LBRACE"))
    ELSE LET b == parse_block_statement(p + 6, e) IN
         PR(FunctionStatement(IdentifierLiteral(TokAt(p + 1).literal),
                              TokAt(p + 5).literal, b.node),
            b.pos, b.errors)

parse_statement(p, e) ==
    IF TokAt(p).type = "IDENT" /\ TokAt(p + 1).type = "EQ"
    THEN parse_assignment_statement(p, e)
    ELSE CASE TokAt(p).type = "VAR" -> parse_var_statement(p, e)
           [] TokAt(p).type = "FN" -> parse_function_statement(p, e)
           [] TokAt(p).type = "RET" -> parse_return_statement(p, e)
           [] OTHER -> parse_expression_statement(p, e)

(***************************************************************************)
(*                            Environment.py                               *)
(***************************************************************************)
\* An ir.Value: a constant, the result of an instruction, or a global.
Val(k, ty, id) == [k |-> k, ty |-> ty, id |-> id]

NoVal == Val("None", "None", 0)

\* The (value, type) pair records[name]; NoBinding is lookup's None.
Binding(h, t) == [h |-> h, t |-> t]

NoBinding == Binding(NoVal, "None")

\* Environment(parent=...): records is a dict, here a function on the
\* bound names; parent is a frame index, 0 for the global frame.
Environment(recs, parent) == [records |-> recs, parent |-> parent]

EmptyRecords == [n \in {} |-> NoBinding]

\* A variant that starts the frame's records afresh.
define_fresh(frames, i, name, value, type) ==
    [frames EXCEPT ![i].records = [n \in {name} |-> Binding(value, type)]]

define(frames, i, name, value, type) ==
    [frames EXCEPT ![i].records =
        [n \in (DOMAIN @) \cup {name} |->
            IF n = name THEN Binding(value, type) ELSE @[n]]]

\* A variant that stops at the frame it is called on.
resolve_local(frames, i, name) ==
    IF name \in DOMAIN frames[i].records THEN frames[i].records[name]
    ELSE NoBinding

RECURSIVE resolve(_, _, _)
resolve(frames, i, name) ==
    IF name \in DOMAIN frames[i].records THEN frames[i].records[name]
    ELSE IF frames[i].parent # 0 THEN resolve(frames, frames[i].parent, name)
    ELSE NoBinding

lookup(frames, i, name) == resolve(frames, i, name)

(***************************************************************************)
(*              llvmlite.ir as Compiler.py drives it                       *)
(***************************************************************************)
\* Compiler.type_map; "None" stands for the KeyError of an unknown name.
type_map(t) ==
    CASE t = "int" -> "i32"
      [] t = "flo" -> "float"
      [] t = "bool" -> "i1"
      [] OTHER -> "None"

PtrTo(t) ==
    CASE t = "i32" -> "i32*"
      [] t = "float" -> "float*"
      [] t = "i1" -> "i1*"
      [] t = "fn" -> "fn*"
      [] OTHER -> "None"

IsPointer(t) == t \in {"i32*", "float*", "i1*", "fn*"}

Pointee(t) ==
    CASE t = "i32*" -> "i32"
      [] t = "float*" -> "float"
      [] t = "i1*" -> "i1"
      [] t = "fn*" -> "fn"
      [] OTHER -> "None"

IsIntType(t) == t \in {"i32", "i1"}

IsFloatType(t) == t = "float"

\* An ir.Instruction: opcode, identity of its result, operands a and b,
\* result type, branch targets (block indices).
Instr(o, id, a, b, ty, t1, t2) ==
    [op |-> o, id |-> id, a |-> a, b |-> b, ty |-> ty, t1 |-> t1, t2 |-> t2]

NoInstr == Instr("None", 0, NoVal, NoVal, "None", 0, 0)

Terminators == {"ret", "br", "cbr"}

\* An ir.Block of function fn: its instruction list and its terminator
\* attribute.
Block(fn, name) ==
    [fn |-> fn, name |-> name, instructions |-> <<>>,
     terminator |-> NoInstr]

\* IRBuilder._insert: no check, the instruction goes at the end.
Insert(bs, c, ins) == [bs EXCEPT ![c].instructions = Append(@, ins)]

\* IRBuilder._set_terminator on a block that has none (the caller has
\* checked: llvmlite asserts it).
SetTerminator(bs, c, ins) ==
    [bs EXCEPT ![c].instructions = Append(@, ins), ![c].terminator = ins]

is_terminated(bs, c) == bs[c].terminator # NoInstr

(***************************************************************************)
(*                      Compiler.py: expressions                           *)
(***************************************************************************)
\* What lowering an expression yields: the (value, Type) pair returned,
\* the blocks and identity counter after the instructions it emitted, and
\* ok = FALSE when an exception was raised on the way.
ER(v, ty, bs, nid, ok) ==
    [v |-> v, ty |-> ty, blocks |-> bs, nextId |-> nid, ok |-> ok]

\* builder.load(ptr): TypeError on a non-pointer, AttributeError when the
\* builder has no block.
builder_load(ptr, Type, bs, nid) ==
    IF ~IsPointer(ptr.ty) \/ cursor = 0 THEN ER(NoVal, "None", bs, nid, FALSE)
    ELSE ER(Val("inst", Pointee(ptr.ty), nid), Type,
            Insert(bs, cursor,
                   Instr("load", nid, ptr, NoVal, Pointee(ptr.ty), 0, 0)),
            nid + 1, TRUE)

IntOps ==
    [o \in {"+", "-", "*", "/", "%"} |->
        CASE o = "+" -> "add" [] o = "-" -> "sub" [] o = "*" -> "mul"
          [] o = "/" -> "sdiv" [] o = "%" -> "srem"]

FloatOps ==
    [o \in {"+", "-", "*", "/", "%"} |->
        CASE o = "+" -> "fadd" [] o = "-" -> "fsub" [] o = "*" -> "fmul"
          [] o = "/" -> "fdiv" [] o = "%" -> "frem"]

CompareOps == {"<", "<=", ">", ">=", "=="}

\* builder.add & co.: ValueError unless both operands have one type.
builder_binop(opname, l, r, Type, bs, nid) ==
    IF l.ty # r.ty \/ cursor = 0 THEN ER(NoVal, "None", bs, nid, FALSE)
    ELSE ER(Val("inst", l.ty, nid), Type,
            Insert(bs, cursor, Instr(opname, nid, l, r, l.ty, 0, 0)),
            nid + 1, TRUE)

\* builder.icmp_signed / fcmp_ordered.
builder_compare(opname, l, r, bs, nid) ==
    IF cursor = 0 THEN ER(NoVal, "None", bs, nid, FALSE)
    ELSE ER(Val("inst", "i1", nid), "i1",
            Insert(bs, cursor, Instr(opname, nid, l, r, "i1", 0, 0)),
            nid + 1, TRUE)

RECURSIVE resolve_value(_, _, _)
RECURSIVE visit_infix_expression(_, _, _)

visit_infix_expression(n, bs, nid) ==
    LET l == resolve_value(n.left_node, bs, nid) IN
    IF ~l.ok THEN l ELSE
    LET r == resolve_value(n.right_node, l.blocks, l.nextId) IN
    IF ~r.ok THEN r ELSE
    IF IsIntType(r.ty) /\ IsIntType(l.ty)
    THEN IF n.operator \in DOMAIN IntOps
         THEN builder_binop(IntOps[n.operator], l.v, r.v, "i32",
                            r.blocks, r.nextId)
         ELSE IF n.operator \in CompareOps
         THEN builder_compare("icmp", l.v, r.v, r.blocks, r.nextId)
         ELSE ER(NoVal, "i32", r.blocks, r.nextId, TRUE)
    ELSE IF IsFloatType(r.ty) /\ IsFloatType(l.ty)
    THEN IF n.operator \in DOMAIN FloatOps
         THEN builder_binop(FloatOps[n.operator], l.v, r.v, "float",
                            r.blocks, r.nextId)
         ELSE IF n.operator \in CompareOps
         THEN builder_compare("fcmp", l.v, r.v, r.blocks, r.nextId)
         ELSE ER(NoVal, "float", r.blocks, r.nextId, TRUE)
    ELSE ER(NoVal, "None", r.blocks, r.nextId, TRUE)

resolve_value(n, bs, nid) ==
    CASE n.type = "IntegerLiteral" ->
           ER(Val("const", "i32", n.value), "i32", bs, nid, TRUE)
      [] n.type = "FloatLiteral" ->
           ER(Val("const", "float", n.value), "float", bs, nid, TRUE)
      [] n.type = "IdentifierLiteral" ->
           LET b == lookup(envs, env, n.value) IN
           IF b = NoBinding THEN ER(NoVal, "None", bs, nid, FALSE)
           ELSE builder_load(b.h, b.t, bs, nid)
      [] n.type = "BooleanLiteral" ->
           ER(Val("const", "i1", IF n.value THEN 1 ELSE 0), "i1", bs, nid,
              TRUE)
      [] n.type = "InfixExpression" -> visit_infix_expression(n, bs, nid)
      [] n.type = "None" -> ER(NoVal, "None", bs, nid, FALSE)
      [] OTHER -> ER(NoVal, "None", bs, nid, TRUE)

(***************************************************************************)
(*                      Compiler.py: statements                            *)
(***************************************************************************)
\* ---- the programs handed to compile() ----
MaxStmts == 4

VarNames == {"x"}

FnNames == {"f", "g"}

DeclTypes == {"int"}

\* The expressions a statement may carry.
ExprSet ==
    {IntegerLiteral(1), IntegerLiteral(2), IdentifierLiteral("x"),
     InfixExpression(IdentifierLiteral("x"), "+", IntegerLiteral(1)),
     InfixExpression(IntegerLiteral(1), "+", FloatLiteral(1))}

\* The conditions an if-statement may carry.
CondSet == {IntegerLiteral(1), IdentifierLiteral("x")}

\* An if-statement node; its consequence and alternative blocks are read
\* when they are visited, the node records whether an alternative exists.
IfStatement(cond, alt) ==
    [type |-> "IfStatement", condition |-> cond, has_alternative |-> alt]

\* A function statement node as visit_function_statement reads it (the
\* body is read when it is visited).
FunctionNode(name, return_type) ==
    [type |-> "FunctionStatement", name |-> IdentifierLiteral(name),
     parameters |-> <<>>, return_type |-> return_type]

\* A pending activation on the Python call stack: the loop of
\* visit_program or visit_block_statement, or the rest of a
\* visit_function_statement / visit_if_statement after a compile() call.
Frame(k, a, b, n, t, h) == [k |-> k, a |-> a, b |-> b, n |-> n, t |-> t, h |-> h]

LoopFrame(k) == Frame(k, 0, 0, "", "", NoVal)

Top == stack[Len(stack)]

Pop(st) == SubSeq(st, 1, Len(st) - 1)

\* What lowering one statement yields; ok = FALSE when it raised.
SR(bs, es, errs, nid, ok) ==
    [blocks |-> bs, envs |-> es, errors |-> errs, nextId |-> nid, ok |-> ok]

\* builder.store(value, ptr): TypeError unless ptr is a pointer to the
\* value's type, AttributeError on a None value or a builder without block.
builder_store_ok(value, ptr) ==
    /\ IsPointer(ptr.ty)
    /\ value # NoVal
    /\ Pointee(ptr.ty) = value.ty
    /\ cursor # 0

builder_store(value, ptr, bs) ==
    Insert(bs, cursor, Instr("store", 0, value, ptr, "None", 0, 0))

undeclared_error(name) == [kind |-> "Undeclared", name |-> name]

\* A variant that declares without consulting the scope chain.
visit_var_statement_fresh(n) ==
    LET r == resolve_value(n.value, blocks, nextId)
        ptr == Val("inst", PtrTo(r.ty), r.nextId)
        b1 == Insert(r.blocks, cursor,
                     Instr("alloca", r.nextId, NoVal, NoVal, PtrTo(r.ty), 0, 0))
    IN IF ~r.ok \/ r.ty = "None" \/ cursor = 0
       THEN SR(r.blocks, envs, errors, r.nextId, FALSE)
       ELSE IF ~builder_store_ok(r.v, ptr)
       THEN SR(b1, envs, errors, r.nextId + 1, FALSE)
       ELSE SR(builder_store(r.v, ptr, b1),
               define(envs, env, n.name.value, ptr, r.ty), errors,
               r.nextId + 1, TRUE)

visit_var_statement(n) ==
    LET name == n.name.value
        r == resolve_value(n.value, blocks, nextId)
    IN
    IF ~r.ok THEN SR(r.blocks, envs, errors, r.nextId, FALSE)
    ELSE IF lookup(envs, env, name) = NoBinding
    THEN \* builder.alloca(Type) raises on a None Type
         IF r.ty = "None" \/ cursor = 0
         THEN SR(r.blocks, envs, errors, r.nextId, FALSE)
         ELSE LET ptr == Val("inst", PtrTo(r.ty), r.nextId)
                  b1 == Insert(r.blocks, cursor,
                               Instr("alloca", r.nextId, NoVal, NoVal,
                                     PtrTo(r.ty), 0, 0))
              IN IF ~builder_store_ok(r.v, ptr)
                 THEN SR(b1, envs, errors, r.nextId + 1, FALSE)
                 ELSE SR(builder_store(r.v, ptr, b1),
                         define(envs, env, name, ptr, r.ty), errors,
                         r.nextId + 1, TRUE)
    ELSE LET ptr == lookup(envs, env, name).h IN
         IF ~builder_store_ok(r.v, ptr)
         THEN SR(r.blocks, envs, errors, r.nextId, FALSE)
         ELSE SR(builder_store(r.v, ptr, r.blocks), envs, errors,
                 r.nextId, TRUE)

\* A variant that stores whether or not the target is bound.
visit_assign_statement_nocheck(n) ==
    LET r == resolve_value(n.right_value, blocks, nextId)
        ptr == lookup(envs, env, n.ident.value).h
    IN IF ~r.ok \/ ~builder_store_ok(r.v, ptr)
       THEN SR(r.blocks, envs, errors, r.nextId, FALSE)
       ELSE SR(builder_store(r.v, ptr, r.blocks), envs, errors, r.nextId,
               TRUE)

visit_assign_statement(n) ==
    LET name == n.ident.value
        r == resolve_value(n.right_value, blocks, nextId)
    IN
    IF ~r.ok THEN SR(r.blocks, envs, errors, r.nextId, FALSE)
    ELSE IF lookup(envs, env, name) = NoBinding
    THEN SR(r.blocks, envs, Append(errors, undeclared_error(name)),
            r.nextId, TRUE)
    ELSE LET ptr == lookup(envs, env, name).h IN
         IF ~builder_store_ok(r.v, ptr)
         THEN SR(r.blocks, envs, errors, r.nextId, FALSE)
         ELSE SR(builder_store(r.v, ptr, r.blocks), envs, errors,
                 r.nextId, TRUE)

visit_return_statement(n) ==
    LET r == resolve_value(n.return_value, blocks, nextId) IN
    IF ~r.ok \/ cursor = 0 THEN SR(r.blocks, envs, errors, r.nextId, FALSE)
    ELSE IF ~is_terminated(r.blocks, cursor)
    THEN SR(SetTerminator(r.blocks, cursor,
                          Instr("ret", 0, r.v, NoVal, "None", 0, 0)),
            envs, errors, r.nextId, TRUE)
    ELSE SR(r.blocks, envs, errors, r.nextId, TRUE)

RetTypes == {"int"}

\* compile() runs on the program the parser returned (under the driver),
\* or on statements drawn as they are visited.
Driven == stage = "compile"

\* The statements the innermost running loop has still to hand over.
Rest == todo[Len(todo)]

\* The statement that loop hands to compile() next.
Feed == IF Driven /\ todo # <<>> /\ Rest # <<>> THEN {Head(Rest)} ELSE {}

\* todo once that statement has been handed over.
Taken == IF Driven THEN [todo EXCEPT ![Len(todo)] = Tail(@)] ELSE todo

\* The nodes of type ty compile() can be handed now.
Offered(ty, any) == IF Driven THEN {st \in Feed : st.type = ty} ELSE any

\* compile() is about to be handed the next statement of the loop on top
\* of the stack: the program loop, or the block loop whose terminator
\* check has passed.
CanVisit ==
    /\ ~crashed
    /\ stack # <<>>
    /\ Driven \/ nstmts < MaxStmts
    /\ \/ Top.k = "program"
       \/ Top.k = "block" /\ ~is_terminated(blocks, cursor)

\* The effect of a statement that calls compile() on no child.
Lower(r, n, name) ==
    /\ blocks' = r.blocks
    /\ envs' = r.envs
    /\ errors' = r.errors
    /\ nextId' = r.nextId
    /\ crashed' = ~r.ok
    /\ node' = n
    /\ op' = name
    /\ nstmts' = nstmts + 1
    /\ todo' = Taken
    /\ UNCHANGED <<cursor, env, globals, stack, stage>>
    /\ UNCHANGED <<pvars, returned>>

VisitVarStatement ==
    /\ CanVisit
    /\ \E n \in Offered("VarStatement",
                         {VarStatement(IdentifierLiteral(name), e, vt) :
                            name \in VarNames, e \in ExprSet, vt \in DeclTypes}) :
         Lower(visit_var_statement(n), n, "var")

VisitAssignStatement ==
    /\ CanVisit
    /\ \E n \in Offered("AssignStatement",
                         {AssignStatement(IdentifierLiteral(name), e) :
                            name \in VarNames, e \in ExprSet}) :
         Lower(visit_assign_statement(n), n, "assign")

VisitReturnStatement ==
    /\ CanVisit
    /\ \E n \in Offered("ReturnStatement", {ReturnStatement(e) : e \in ExprSet}) :
         Lower(visit_return_statement(n), n, "return")

\* visit_expression_statement: compile(node.expr), which lowers an infix
\* expression and drops its value, and has no case for a literal or an
\* identifier.
visit_expression_statement(n) ==
    IF n.expr.type = "InfixExpression"
    THEN LET r == visit_infix_expression(n.expr, blocks, nextId) IN
         SR(r.blocks, envs, errors, r.nextId, r.ok)
    ELSE SR(blocks, envs, errors, nextId, TRUE)

VisitExpressionStatement ==
    /\ CanVisit
    /\ \E n \in Offered("ExpressionStatement",
                         {ExpressionStatement(e) : e \in ExprSet}) :
         Lower(visit_expression_statement(n), n, "expression")

\* visit_function_statement up to its compile(body) call.
VisitFunctionStatement ==
    /\ CanVisit
    /\ \E fs \in Offered("FunctionStatement",
                          {FunctionStatement(IdentifierLiteral(f), t,
                                             BlockStatement(<<>>)) :
                             f \in FnNames, t \in RetTypes}) :
         LET name == fs.name.value
             rt == fs.return_type
             n == FunctionNode(name, rt)
             func == Val("global", "fn*", nextId)
             frame == Len(envs) + 1
         IN
         /\ node' = n
         /\ op' = "function"
         /\ nstmts' = nstmts + 1
         /\ IF type_map(rt) = "None" \/ name \in globals
            THEN /\ crashed' = TRUE
                 /\ todo' = Taken
                 /\ UNCHANGED <<blocks, cursor, envs, env, globals, errors,
                                stack, nextId>>
            ELSE /\ globals' = globals \cup {name}
                 /\ todo' = IF Driven THEN Append(Taken, fs.body.statements)
                            ELSE todo
                 /\ nextId' = nextId + 1
                 /\ blocks' = Append(blocks, Block(name, "entry"))
                 /\ cursor' = Len(blocks) + 1
                 /\ envs' = define(Append(envs, Environment(EmptyRecords, env)),
                                   frame, name, func, type_map(rt))
                 /\ env' = frame
                 /\ stack' = stack \o
                      <<Frame("function", env, cursor, name, type_map(rt), func),
                        LoopFrame("block")>>
                 /\ UNCHANGED <<errors, crashed>>
    /\ UNCHANGED <<pvars, stage, returned>>

\* visit_function_statement after compile(body) has returned.
FunctionExit ==
    /\ ~crashed
    /\ stack # <<>>
    /\ Top.k = "function"
    /\ env' = Top.a
    /\ envs' = define(envs, Top.a, Top.n, Top.h, Top.t)
    /\ cursor' = Top.b
    /\ stack' = Pop(stack)
    /\ op' = "function_exit"
    /\ UNCHANGED <<blocks, globals, errors, node, nextId, nstmts, crashed>>
    /\ UNCHANGED <<pvars, dvars, returned>>

\* A variant that branches without looking at the terminator.
Bridge_always(bs, target) ==
    [bs EXCEPT ![cursor].instructions =
                   Append(@, Instr("br", 0, NoVal, NoVal, "None", target, 0)),
               ![cursor].terminator =
                   Instr("br", 0, NoVal, NoVal, "None", target, 0)]

\* builder.branch(target) if the block the builder is on has no
\* terminator (the bridge after an arm of an if).
Bridge(bs, target) ==
    IF ~is_terminated(bs, cursor)
    THEN SetTerminator(bs, cursor, Instr("br", 0, NoVal, NoVal, "None", target, 0))
    ELSE bs

\* visit_if_statement up to its first compile() call: the condition, the
\* new blocks (three with an alternative, the two of builder.if_then
\* without), the conditional branch, the builder on the then block.
VisitIfStatement ==
    /\ CanVisit
    /\ \E cond \in CondSet, alt \in BOOLEAN :
         LET n == IfStatement(cond, alt)
             r == resolve_value(cond, blocks, nextId)
             fn == blocks[cursor].fn
             b1 == Len(blocks) + 1
             cbr(t, f) == Instr("cbr", 0, r.v, NoVal, "None", t, f)
         IN
         /\ node' = n
         /\ op' = "if"
         /\ nstmts' = nstmts + 1
         /\ nextId' = r.nextId
         /\ IF ~r.ok \/ cursor = 0
            THEN /\ crashed' = TRUE
                 /\ blocks' = r.blocks
                 /\ UNCHANGED <<cursor, stack>>
            ELSE /\ crashed' = FALSE
                 /\ cursor' = b1
                 /\ IF alt
                    THEN /\ blocks' =
                              SetTerminator(r.blocks, cursor, cbr(b1, b1 + 1))
                              \o <<Block(fn, "if.then"), Block(fn, "if.else"),
                                   Block(fn, "if.merge")>>
                         /\ stack' = stack \o
                              <<Frame("then", b1 + 1, b1 + 2, "", "", NoVal),
                                LoopFrame("block")>>
                    ELSE /\ blocks' =
                              SetTerminator(r.blocks, cursor, cbr(b1, b1 + 1))
                              \o <<Block(fn, "if"), Block(fn, "endif")>>
                         /\ stack' = stack \o
                              <<Frame("if_then", b1 + 1, 0, "", "", NoVal),
                                LoopFrame("block")>>
    /\ UNCHANGED <<envs, env, globals, errors>>
    /\ UNCHANGED <<pvars, dvars, returned>>

\* visit_if_statement between compile(consequence) and
\* compile(alternative).
IfThenDone ==
    /\ ~crashed
    /\ stack # <<>>
    /\ Top.k = "then"
    /\ blocks' = Bridge(blocks, Top.b)
    /\ cursor' = Top.a
    /\ stack' = Pop(stack) \o
         <<Frame("else", 0, Top.b, "", "", NoVal), LoopFrame("block")>>
    /\ op' = "then_done"
    /\ UNCHANGED <<envs, env, globals, errors, node, nextId, nstmts, crashed>>
    /\ UNCHANGED <<pvars, dvars, returned>>

\* A variant that leaves the builder on the block the alternative ended in.
IfElseDone_nomove ==
    /\ ~crashed
    /\ stack # <<>>
    /\ Top.k = "else"
    /\ blocks' = Bridge(blocks, Top.b)
    /\ stack' = Pop(stack)
    /\ op' = "else_done"
    /\ UNCHANGED <<cursor, envs, env, globals, errors, node, nextId, nstmts,
                   crashed>>
    /\ UNCHANGED <<pvars, dvars, returned>>

\* visit_if_statement after compile(alternative).
IfElseDone ==
    /\ ~crashed
    /\ stack # <<>>
    /\ Top.k = "else"
    /\ blocks' = Bridge(blocks, Top.b)
    /\ cursor' = Top.b
    /\ stack' = Pop(stack)
    /\ op' = "else_done"
    /\ UNCHANGED <<envs, env, globals, errors, node, nextId, nstmts, crashed>>
    /\ UNCHANGED <<pvars, dvars, returned>>

\* The exit of the builder.if_then context of an if without alternative.
IfThenExit ==
    /\ ~crashed
    /\ stack # <<>>
    /\ Top.k = "if_then"
    /\ blocks' = Bridge(blocks, Top.a)
    /\ cursor' = Top.a
    /\ stack' = Pop(stack)
    /\ op' = "if_then_exit"
    /\ UNCHANGED <<envs, env, globals, errors, node, nextId, nstmts, crashed>>
    /\ UNCHANGED <<pvars, dvars, returned>>

\* A variant of the block loop without the terminator check: the next
\* statement (a declaration) is lowered all the same.
BlockBreak_nocheck ==
    /\ ~crashed
    /\ stack # <<>>
    /\ Top.k = "block"
    /\ is_terminated(blocks, cursor)
    /\ nstmts < MaxStmts
    /\ \E name \in VarNames, e \in ExprSet, vt \in DeclTypes :
         LET n == VarStatement(IdentifierLiteral(name), e, vt) IN
         Lower(visit_var_statement(n), n, "break")

\* visit_block_statement finds a terminator on the builder's block with
\* statements still to go: break.
BlockBreak ==
    /\ ~crashed
    /\ stack # <<>>
    /\ Top.k = "block"
    /\ is_terminated(blocks, cursor)
    /\ Driven => Rest # <<>>
    /\ stack' = Pop(stack)
    /\ todo' = IF Driven THEN Pop(todo) ELSE todo
    /\ op' = "break"
    /\ UNCHANGED <<blocks, cursor, envs, env, globals, errors, node, nextId,
                   nstmts, crashed>>
    /\ UNCHANGED <<pvars, stage, returned>>

\* visit_block_statement runs out of statements.
BlockEnd ==
    /\ ~crashed
    /\ stack # <<>>
    /\ Top.k = "block"
    /\ Driven => Rest = <<>>
    /\ stack' = Pop(stack)
    /\ todo' = IF Driven THEN Pop(todo) ELSE todo
    /\ op' = "block_end"
    /\ UNCHANGED <<blocks, cursor, envs, env, globals, errors, node, nextId,
                   nstmts, crashed>>
    /\ UNCHANGED <<pvars, stage, returned>>

\* visit_program runs out of statements: compile() returns.
ProgramEnd ==
    /\ ~crashed
    /\ stack # <<>>
    /\ Top.k = "program"
    /\ Driven => Rest = <<>>
    /\ stack' = Pop(stack)
    /\ todo' = IF Driven THEN Pop(todo) ELSE todo
    /\ op' = "done"
    /\ UNCHANGED <<blocks, cursor, envs, env, globals, errors, node, nextId,
                   nstmts, crashed>>
    /\ UNCHANGED <<pvars, stage, returned>>

\* Compiler.__init__ with initialize_builtins: the global frame binds the
\* two boolean globals; the builder has no block.
true_var == Val("global", "i1*", 1)

false_var == Val("global", "i1*", 2)

\* The frame Compiler.__init__ creates, once initialize_builtins has run.
GlobalFrame ==
    Environment([n \in {"true", "false"} |->
                   IF n = "true" THEN Binding(true_var, "i1*")
                   ELSE Binding(false_var, "i1*")], 0)

CompilerInit ==
    /\ blocks = <<>>
    /\ cursor = 0
    /\ envs = <<GlobalFrame>>
    /\ env = 1
    /\ globals = {"true", "false"}
    /\ errors = <<>>
    /\ stack = <<LoopFrame("program")>>
    /\ node = None
    /\ op = "init"
    /\ nextId = 3
    /\ nstmts = 0
    /\ crashed = FALSE
    /\ returned = NoBinding

\* No driver: a component is exercised on its own.
NoDriver ==
    /\ stage = "none"
    /\ todo = <<>>

\* Parser.__init__: errors empty, current_token on the first token.
ParserInit(toks) ==
    /\ tokens = toks
    /\ pos = 1
    /\ perrors = <<>>
    /\ program = <<>>
    /\ pdone = FALSE

\* The lowering pass on its own, the parser idle on an empty input.
Init == ParserInit(<<>>) /\ CompilerInit /\ NoDriver

Next ==
    \/ VisitVarStatement
    \/ VisitAssignStatement
    \/ VisitReturnStatement
    \/ VisitFunctionStatement
    \/ FunctionExit
    \/ VisitIfStatement
    \/ IfThenDone
    \/ IfElseDone
    \/ IfThenExit
    \/ BlockBreak
    \/ BlockEnd
    \/ ProgramEnd

Spec == Init /\ [][Next]_vars

(***************************************************************************)
(*                     Parser.py: parse_program                            *)
(***************************************************************************)
\* ---- the token streams handed to the parser ----
MaxOperands == 3

Digit(i) ==
    CASE i = 1 -> "1" [] i = 2 -> "2" [] i = 3 -> "3" [] i = 4 -> "4"
      [] OTHER -> "0"

OpTokens ==
    {Token("PLUS", "+"), Token("MINUS", "-"), Token("ASTERISK", "*"),
     Token("SLASH", "/"), Token("MODULUS", "%"), Token("POW", "^")}

LPAREN == Token("LPAREN", "(")

RPAREN == Token("RPAREN", ")")

SEMICOLON == Token("SEMICOLON", ";")

\* 1 op 2 op ... n: the operands in order, any operators between them.
RECURSIVE Chain(_)
Chain(n) ==
    IF n <= 1 THEN {<<Token("INT", Digit(1))>>}
    ELSE {c \o <<o, Token("INT", Digit(n))>> : c \in Chain(n - 1), o \in OpTokens}

\* ( 1 op 2 ) op 3 and 1 op ( 2 op 3 ).
GroupedLeft ==
    {<<LPAREN>> \o SubSeq(t, 1, 3) \o <<RPAREN>> \o SubSeq(t, 4, 5) :
        t \in Chain(3)}

GroupedRight ==
    {SubSeq(t, 1, 2) \o <<LPAREN>> \o SubSeq(t, 3, 5) \o <<RPAREN>> :
        t \in Chain(3)}

Expressions ==
    UNION {Chain(n) : n \in 1..MaxOperands} \cup GroupedLeft \cup GroupedRight

\* An expression statement, with or without its semicolon.
TokenStreams == Expressions \cup {t \o <<SEMICOLON>> : t \in Expressions}

\* A variant of the loop of parse_program that leaves the advance to the
\* statement parsers.
ParseStatement_stay ==
    /\ stage \in {"none", "parse"}
    /\ ~pdone
    /\ TokAt(pos).type # "EOF"
    /\ LET r == parse_statement(pos, perrors) IN
         /\ program' = IF r.node # None THEN Append(program, r.node)
                       ELSE program
         /\ perrors' = r.errors
         /\ pos' = r.pos
    /\ UNCHANGED <<tokens, pdone>>
    /\ UNCHANGED <<cvars, dvars, returned>>

\* One iteration of the loop of parse_program: parse a statement, keep it
\* unless it is None, advance one token.
ParseStatement ==
    /\ stage \in {"none", "parse"}
    /\ ~pdone
    /\ TokAt(pos).type # "EOF"
    /\ LET r == parse_statement(pos, perrors) IN
         /\ program' = IF r.node # None THEN Append(program, r.node)
                       ELSE program
         /\ perrors' = r.errors
         /\ pos' = r.pos + 1
    /\ UNCHANGED <<tokens, pdone>>
    /\ UNCHANGED <<cvars, dvars, returned>>

\* The loop of parse_program ends on EOF and the program is returned.
ParseProgramReturn ==
    /\ stage \in {"none", "parse"}
    /\ ~pdone
    /\ TokAt(pos).type = "EOF"
    /\ pdone' = TRUE
    /\ UNCHANGED <<tokens, pos, perrors, program>>
    /\ UNCHANGED <<cvars, dvars, returned>>

InitParser ==
    /\ \E toks \in TokenStreams : ParserInit(toks)
    /\ CompilerInit
    /\ NoDriver

NextParser == ParseStatement \/ ParseProgramReturn

SpecParser == InitParser /\ [][NextParser]_vars

\* ---- any token stream: statements, whole or damaged ----
MaxTokens == 3

VAR == Token("VAR", "var")

FN == Token("FN", "fn")

RET == Token("RET", "ret")

COLON == Token("COLON", ":")

EQ == Token("EQ", "=")

ARROW == Token("ARROW", "->")

LBRACE == Token("LBRACE", "{")

RBRACE == Token("RBRACE", "}")

ILLEGAL == Token("ILLEGAL", "$")

TYPE_int == Token("TYPE", "int")

IDENT_x == Token("IDENT", "x")

IDENT_f == Token("IDENT", "f")

INT_1 == Token("INT", "1")

PLUS == Token("PLUS", "+")

Alphabet ==
    {VAR, FN, RET, COLON, EQ, ARROW, LBRACE, RBRACE, LPAREN, RPAREN,
     SEMICOLON, ILLEGAL, TYPE_int, IDENT_x, INT_1, PLUS}

\* var x : int = 1 ;
VarDecl == <<VAR, IDENT_x, COLON, TYPE_int, EQ, INT_1, SEMICOLON>>

\* fn f ( ) -> int {
FnHead == <<FN, IDENT_f, LPAREN, RPAREN, ARROW, TYPE_int, LBRACE>>

\* Short programs: var x : int = 1 ;   x = 1 ;   ret 1 + 1 ;
\* fn f ( ) -> int { ret 1 ; }   fn f ( ) -> int { x = 1 ; }
\* fn f ( ) -> int { ret 1 ; ret 1 ; }
SmallPrograms ==
    {VarDecl,
     <<IDENT_x, EQ, INT_1, SEMICOLON>>,
     <<RET, INT_1, PLUS, INT_1, SEMICOLON>>,
     FnHead \o <<RET, INT_1, SEMICOLON, RBRACE>>,
     FnHead \o <<IDENT_x, EQ, INT_1, SEMICOLON, RBRACE>>,
     FnHead \o <<RET, INT_1, SEMICOLON, RET, INT_1, SEMICOLON, RBRACE>>}

\* Longer ones: a function with a declaration, a function in a function, a
\* declaration before a function.
WholePrograms ==
    SmallPrograms \cup
    {FnHead \o VarDecl \o <<RET, IDENT_x, SEMICOLON, RBRACE>>,
     FnHead \o FnHead \o <<RET, INT_1, SEMICOLON, RBRACE, RBRACE>>,
     VarDecl \o FnHead \o <<RET, INT_1, SEMICOLON, RBRACE>>}

\* t with its i-th token taken out, and with a token put in its place.
Without(t, i) == SubSeq(t, 1, i - 1) \o SubSeq(t, i + 1, Len(t))

Replaced(t, i, tok) == [t EXCEPT ![i] = tok]

\* The streams of S with one token lost or mistaken for another.
Damaged(S) ==
    UNION {{Without(t, i) : i \in DOMAIN t} : t \in S}
    \cup UNION {{Replaced(t, i, tok) : i \in DOMAIN t, tok \in {INT_1, PLUS, RBRACE}} :
                t \in S}

\* Every stream of at most n tokens of A.
RECURSIVE Short(_, _)
Short(A, n) ==
    IF n = 0 THEN {<<>>}
    ELSE Short(A, n - 1) \cup
         {Append(t, tok) : t \in {u \in Short(A, n - 1) : Len(u) = n - 1},
                           tok \in A}

AnyStreams ==
    WholePrograms \cup Damaged(WholePrograms) \cup Short(Alphabet, MaxTokens)

InitParserAny ==
    /\ \E toks \in AnyStreams : ParserInit(toks)
    /\ CompilerInit
    /\ NoDriver

SpecParserAny == InitParserAny /\ [][NextParser]_vars

(***************************************************************************)
(*                  Environment.py, called frame by frame                  *)
(***************************************************************************)
MaxFrames == 3

EnvNames == {"x", "y"}

EnvValues == {Val("inst", "i32*", 1), Val("inst", "i32*", 2)}

EnvTypes == {"i32"}

\* Environment(): one frame without parent and without records.
InitEnv ==
    /\ ParserInit(<<>>)
    /\ NoDriver
    /\ blocks = <<>>
    /\ cursor = 0
    /\ envs = <<Environment(EmptyRecords, 0)>>
    /\ env = 1
    /\ globals = {}
    /\ errors = <<>>
    /\ stack = <<>>
    /\ node = None
    /\ op = "init"
    /\ nextId = 1
    /\ nstmts = 0
    /\ crashed = FALSE
    /\ returned = NoBinding

\* Environment(parent=envs[i]) for a frame i there is.
EnvNew ==
    /\ Len(envs) < MaxFrames
    /\ \E i \in 1..Len(envs) :
         envs' = Append(envs, Environment(EmptyRecords, i))
    /\ env' = Len(envs) + 1
    /\ UNCHANGED <<blocks, cursor, globals, errors, stack, node, op, nextId,
                   nstmts, crashed>>
    /\ UNCHANGED <<pvars, dvars, returned>>

\* envs[i].define(name, value, type).
define_call(i, name, value, type) ==
    /\ env' = i
    /\ returned' = Binding(value, type).h
    /\ envs' = define(envs, i, name, value, type)
    /\ UNCHANGED <<blocks, cursor, globals, errors, stack, node, op, nextId,
                   nstmts, crashed>>
    /\ UNCHANGED <<pvars, dvars>>

EnvDefine ==
    \E i \in 1..Len(envs), name \in EnvNames, value \in EnvValues,
       type \in EnvTypes : define_call(i, name, value, type)

\* envs[i].lookup(name).
lookup_call(i, name) ==
    /\ env' = i
    /\ returned' = lookup(envs, i, name)
    /\ UNCHANGED <<blocks, cursor, envs, globals, errors, stack, node, op,
                   nextId, nstmts, crashed>>
    /\ UNCHANGED <<pvars, dvars>>

EnvLookup == \E i \in 1..Len(envs), name \in EnvNames : lookup_call(i, name)

NextEnv == EnvNew \/ EnvDefine \/ EnvLookup

SpecEnv == InitEnv /\ [][NextEnv]_vars

(***************************************************************************)
(*                               main.py                                   *)
(***************************************************************************)
\* What the driver is run on: the programs, the short ones damaged, and
\* the short streams of expression tokens.
MainAlphabet == {IDENT_x, INT_1, PLUS, EQ, RPAREN, SEMICOLON}

MainStreams ==
    WholePrograms \cup Damaged(SmallPrograms)
    \cup Short(MainAlphabet, MaxTokens)

\* The start of the driver: nothing is read, no Parser, no Compiler.
MainInit ==
    /\ stage = "start"
    /\ todo = <<>>
    /\ ParserInit(<<>>)
    /\ blocks = <<>>
    /\ cursor = 0
    /\ envs = <<>>
    /\ env = 0
    /\ globals = {}
    /\ errors = <<>>
    /\ stack = <<>>
    /\ node = None
    /\ op = "init"
    /\ nextId = 1
    /\ nstmts = 0
    /\ crashed = FALSE
    /\ returned = NoBinding

\* The source is read and lexed, the Parser is built on the tokens.
MainStart ==
    /\ stage = "start"
    /\ \E toks \in MainStreams : tokens' = toks
    /\ stage' = "parse"
    /\ UNCHANGED <<pos, perrors, program, pdone, todo>>
    /\ UNCHANGED <<cvars, returned>>

\* parse_program has returned with diagnostics: they are printed, exit(1).
MainExit ==
    /\ stage = "parse"
    /\ pdone
    /\ Len(perrors) > 0
    /\ stage' = "exit"
    /\ UNCHANGED <<pvars, cvars, todo, returned>>

\* parse_program has returned without diagnostics: the Compiler is built
\* and compile(program) is entered.
MainCompile ==
    /\ stage = "parse"
    /\ pdone
    /\ Len(perrors) = 0
    /\ stage' = "compile"
    /\ todo' = <<program>>
    /\ blocks' = <<>>
    /\ cursor' = 0
    /\ envs' = <<GlobalFrame>>
    /\ env' = 1
    /\ globals' = {"true", "false"}
    /\ errors' = <<>>
    /\ stack' = <<LoopFrame("program")>>
    /\ node' = None
    /\ op' = "init"
    /\ nextId' = 3
    /\ nstmts' = 0
    /\ crashed' = FALSE
    /\ UNCHANGED <<pvars, returned>>

\* An exception leaves compile() and ends the driver.
MainRaise ==
    /\ stage = "compile"
    /\ crashed
    /\ stage' = "raised"
    /\ UNCHANGED <<pvars, cvars, todo, returned>>

\* compile() has returned: the module is printed, parsed back, verified,
\* JIT-compiled and its main is called.
MainRun ==
    /\ stage = "compile"
    /\ ~crashed
    /\ stack = <<>>
    /\ stage' = "run"
    /\ UNCHANGED <<pvars, cvars, todo, returned>>

NextMain ==
    \/ MainStart
    \/ ParseStatement
    \/ ParseProgramReturn
    \/ MainExit
    \/ MainCompile
    \/ VisitExpressionStatement
    \/ VisitVarStatement
    \/ VisitAssignStatement
    \/ VisitReturnStatement
    \/ VisitFunctionStatement
    \/ FunctionExit
    \/ BlockBreak
    \/ BlockEnd
    \/ ProgramEnd
    \/ MainRaise
    \/ MainRun

\* The driver is straight-line code: a step that can run does.
SpecMain == MainInit /\ [][NextMain]_vars /\ WF_vars(NextMain)

(***************************************************************************)
(*                     Properties of the parser                            *)
(***************************************************************************)
\* The precedence levels as the language defines them: sums below
\* products below exponents.
LevelOf(o) ==
    CASE o \in {"+", "-"} -> 1
      [] o \in {"*", "/", "%"} -> 2
      [] o = "^" -> 3
      [] OTHER -> 0

\* The input without its closing semicolon.
Body ==
    IF tokens # <<>> /\ tokens[Len(tokens)] = SEMICOLON
    THEN SubSeq(tokens, 1, Len(tokens) - 1) ELSE tokens

Unparenthesised ==
    \A i \in DOMAIN tokens : tokens[i].type \notin {"LPAREN", "RPAREN"}

Literals(t) == [i \in DOMAIN t |-> t[i].literal]

\* The operands and operators of a tree, left to right.
RECURSIVE InOrder(_)
InOrder(n) ==
    CASE n.type = "InfixExpression" ->
           InOrder(n.left_node) \o <<n.operator>> \o InOrder(n.right_node)
      [] n.type = "IntegerLiteral" -> <<Digit(n.value)>>
      [] OTHER -> <<"?">>

\* No operand of an operator is an operator of a lower level.
RECURSIVE HigherNestsBelow(_)
HigherNestsBelow(n) ==
    n.type = "InfixExpression" =>
        /\ n.left_node.type = "InfixExpression" =>
              LevelOf(n.left_node.operator) >= LevelOf(n.operator)
        /\ n.right_node.type = "InfixExpression" =>
              LevelOf(n.right_node.operator) >= LevelOf(n.operator)
        /\ HigherNestsBelow(n.left_node)
        /\ HigherNestsBelow(n.right_node)

\* No right operand of an operator is an operator of the same level.
RECURSIVE LeftNested(_)
LeftNested(n) ==
    n.type = "InfixExpression" =>
        /\ n.right_node.type = "InfixExpression" =>
              LevelOf(n.right_node.operator) # LevelOf(n.operator)
        /\ LeftNested(n.left_node)
        /\ LeftNested(n.right_node)

Lit(i) == IntegerLiteral(i)

ParsedOne ==
    /\ perrors = <<>>
    /\ Len(program) = 1
    /\ program[1].type = "ExpressionStatement"

\* C1: once parse_program has returned on an expression over integer
\* operands and + - * / % ^, the tree keeps the operands and operators in
\* their textual order and nests a higher-precedence operator as an operand
\* of the adjacent lower-precedence one, whatever the order: a op1 b op2 c
\* with op2 above op1 is Infix(a, op1, Infix(b, op2, c)), with op1 above op2
\* it is Infix(Infix(a, op1, b), op2, c); parentheses override:
\* (a op1 b) op2 c is Infix(Infix(a, op1, b), op2, c) and a op1 (b op2 c)
\* is Infix(a, op1, Infix(b, op2, c)).
C1_Precedence ==
    pdone =>
      /\ ParsedOne
      /\ Unparenthesised =>
           /\ InOrder(program[1].expr) = Literals(Body)
           /\ HigherNestsBelow(program[1].expr)
      /\ (Body \in Chain(3) /\ LevelOf(Body[4].literal) > LevelOf(Body[2].literal)) =>
           program[1].expr =
             InfixExpression(Lit(1), Body[2].literal,
                             InfixExpression(Lit(2), Body[4].literal, Lit(3)))
      /\ (Body \in Chain(3) /\ LevelOf(Body[4].literal) < LevelOf(Body[2].literal)) =>
           program[1].expr =
             InfixExpression(InfixExpression(Lit(1), Body[2].literal, Lit(2)),
                             Body[4].literal, Lit(3))
      /\ Body \in GroupedLeft =>
           program[1].expr =
             InfixExpression(InfixExpression(Lit(1), Body[3].literal, Lit(2)),
                             Body[6].literal, Lit(3))
      /\ Body \in GroupedRight =>
           program[1].expr =
             InfixExpression(Lit(1), Body[2].literal,
                             InfixExpression(Lit(2), Body[5].literal, Lit(3)))

\* 2 * 3 + 1 written with the operands of the streams: 1 * 2 + 3 has been
\* parsed to Infix(Infix(1, *, 2), +, 3).
C1_Witness ==
    /\ pdone
    /\ Literals(Body) = <<"1", "*", "2", "+", "3">>
    /\ program = <<ExpressionStatement(
                     InfixExpression(InfixExpression(Lit(1), "*", Lit(2)),
                                     "+", Lit(3)))>>

\* C2: once parse_program has returned on a op1 b op2 c with op1 and op2 of
\* one precedence level (+ -, * / %, ^), the tree is
\* Infix(Infix(a, op1, b), op2, c); in a chain of any length no right
\* operand is an operator of its parent's level.
C2_LeftAssociative ==
    pdone =>
      /\ ParsedOne
      /\ Unparenthesised => LeftNested(program[1].expr)
      /\ (Body \in Chain(3) /\ LevelOf(Body[4].literal) = LevelOf(Body[2].literal)) =>
           program[1].expr =
             InfixExpression(InfixExpression(Lit(1), Body[2].literal, Lit(2)),
                             Body[4].literal, Lit(3))

\* 1 - 2 - 3 has been parsed to Infix(Infix(1, -, 2), -, 3).
C2_Witness ==
    /\ pdone
    /\ Literals(Body) = <<"1", "-", "2", "-", "3">>
    /\ program = <<ExpressionStatement(
                     InfixExpression(InfixExpression(Lit(1), "-", Lit(2)),
                                     "-", Lit(3)))>>

(***************************************************************************)
(*                   Properties of the lowering pass                       *)
(***************************************************************************)
\* The positions of the instructions of bs with opcode in ops.
Places(bs, ops) ==
    UNION {{<<b, i>> : i \in {j \in DOMAIN bs[b].instructions :
                                bs[b].instructions[j].op \in ops}} :
           b \in DOMAIN bs}

Count(bs, ops) == Cardinality(Places(bs, ops))

Last(q) == q[Len(q)]

\* The identifiers an expression references.
RECURSIVE Idents(_)
Idents(e) ==
    CASE e.type = "IdentifierLiteral" -> {e.value}
      [] e.type = "InfixExpression" ->
           Idents(e.left_node) \cup Idents(e.right_node)
      [] OTHER -> {}

\* The expression a statement node carries.
ExprOf(n) ==
    CASE n.type = "VarStatement" -> n.value
      [] n.type = "AssignStatement" -> n.right_value
      [] n.type = "ReturnStatement" -> n.return_value
      [] n.type = "IfStatement" -> n.condition
      [] OTHER -> None

\* C3: in every state of the lowering of a program, every basic block
\* holds at most one terminator instruction, that instruction is the last
\* of the block and is the one the block's terminator attribute names; so
\* nothing has been appended to a block after its terminator.
C3_SingleTerminator ==
    \A b \in DOMAIN blocks :
        LET ins == blocks[b].instructions
            terms == {i \in DOMAIN ins : ins[i].op \in Terminators}
        IN /\ Cardinality(terms) <= 1
           /\ terms # {} => terms = {Len(ins)}
           /\ is_terminated(blocks, b) <=> terms # {}
           /\ is_terminated(blocks, b) => blocks[b].terminator = Last(ins)

\* A block loop has stopped at a return that follows other instructions,
\* inside an arm of an if whose own block ends in its conditional branch.
C3_Witness ==
    /\ op = "break"
    /\ ~crashed
    /\ \E b \in DOMAIN blocks :
         /\ is_terminated(blocks, b)
         /\ blocks[b].terminator.op = "ret"
         /\ Len(blocks[b].instructions) >= 3
    /\ \E b \in DOMAIN blocks : blocks[b].terminator.op = "cbr"

\* C4: when visit_function_statement returns and the compiler's error list
\* is empty, every block of that function (entry, then, else, merge) has a
\* terminator.
C4_EveryBlockTerminated ==
    [][(FunctionExit /\ errors' = <<>>) =>
         \A b \in DOMAIN blocks' :
            blocks'[b].fn = Top.n => is_terminated(blocks', b)]_vars

\* The steps of visit_if_statement on an if with an alternative.
IfElseEnter == VisitIfStatement /\ node'.has_alternative /\ ~crashed'

\* C5: lowering an if with an alternative appends exactly three empty
\* blocks (then, else, merge) to the function of the current block, ends
\* the current block with its only conditional branch, to then and else,
\* and puts the builder on then; after each arm the block the builder is on
\* gets a branch to that merge block if it has no terminator and is left
\* as it is if it has one; after the second arm the builder is on merge.
C5_IfElseLowering ==
    [][/\ IfElseEnter =>
            LET n == Len(blocks) IN
            /\ Len(blocks') = n + 3
            /\ \A i \in 1..3 :
                  /\ blocks'[n + i].fn = blocks[cursor].fn
                  /\ blocks'[n + i].instructions = <<>>
                  /\ blocks'[n + i].terminator = NoInstr
            /\ blocks'[n + 1].name = "if.then"
            /\ blocks'[n + 2].name = "if.else"
            /\ blocks'[n + 3].name = "if.merge"
            /\ Count(blocks', {"cbr"}) = Count(blocks, {"cbr"}) + 1
            /\ Last(blocks'[cursor].instructions).op = "cbr"
            /\ Last(blocks'[cursor].instructions).t1 = n + 1
            /\ Last(blocks'[cursor].instructions).t2 = n + 2
            /\ cursor' = n + 1
       /\ (IfThenDone \/ IfElseDone) =>
            LET merge == Top.b IN
            /\ blocks[merge].name = "if.merge"
            /\ blocks[merge - 1].name = "if.else"
            /\ Len(blocks') = Len(blocks)
            /\ \A b \in DOMAIN blocks : b # cursor => blocks'[b] = blocks[b]
            /\ is_terminated(blocks, cursor) => blocks'[cursor] = blocks[cursor]
            /\ ~is_terminated(blocks, cursor) =>
                 /\ Len(blocks'[cursor].instructions) =
                      Len(blocks[cursor].instructions) + 1
                 /\ Last(blocks'[cursor].instructions).op = "br"
                 /\ Last(blocks'[cursor].instructions).t1 = merge
            /\ IfThenDone => cursor' = merge - 1
            /\ IfElseDone => cursor' = merge
      ]_vars

\* if (cond) { ret 1; } else { ret 2; } has been lowered: then and else end
\* in their returns, nothing follows them, the builder is on the empty
\* merge block.
C5_Witness ==
    /\ op = "else_done"
    /\ ~crashed
    /\ \E b \in DOMAIN blocks :
         /\ blocks[b].name = "if.then"
         /\ blocks[b].instructions =
              <<Instr("ret", 0, Val("const", "i32", 1), NoVal, "None", 0, 0)>>
         /\ blocks[b + 1].instructions =
              <<Instr("ret", 0, Val("const", "i32", 2), NoVal, "None", 0, 0)>>
         /\ blocks[b + 2].instructions = <<>>
         /\ cursor = b + 2

\* C6: while the loop of visit_block_statement is the innermost activation
\* and the builder's block has a terminator, no step emits an instruction,
\* creates a block, changes a frame's bindings or records a diagnostic, and
\* none raises: the rest of the block statement is skipped.
C6_DeadCodeSkipped ==
    [][(~crashed /\ stack # <<>> /\ Top.k = "block"
        /\ is_terminated(blocks, cursor)) =>
         /\ blocks' = blocks
         /\ envs' = envs
         /\ errors' = errors
         /\ ~crashed']_vars

\* ret 1; ret 2; the loop has broken off after the first return, which is
\* the block's only instruction.
C6_Witness ==
    /\ op = "break"
    /\ ~crashed
    /\ blocks[cursor].instructions =
         <<Instr("ret", 0, Val("const", "i32", 1), NoVal, "None", 0, 0)>>

\* A declaration is being lowered whose initializer resolves to a value.
DeclaresValue ==
    /\ VisitVarStatement
    /\ resolve_value(node'.value, blocks, nextId).ok
    /\ resolve_value(node'.value, blocks, nextId).v # NoVal

\* C7: lowering a declaration whose name the current frame already binds
\* to storage allocates nothing, leaves every frame's bindings as they
\* are, and appends to the builder's block, after the instructions of the
\* initializer, one store of the initializer's value into the storage the
\* name is bound to; it does not raise.
C7_RedeclarationStores ==
    [][(/\ DeclaresValue
        /\ node'.name.value \in DOMAIN envs[env].records
        /\ envs[env].records[node'.name.value].h.k = "inst") =>
         LET r == resolve_value(node'.value, blocks, nextId)
             ptr == envs[env].records[node'.name.value].h
         IN /\ Count(blocks', {"alloca"}) = Count(blocks, {"alloca"})
            /\ envs' = envs
            /\ ~crashed'
            /\ blocks' = Insert(r.blocks, cursor,
                                Instr("store", 0, r.v, ptr, "None", 0, 0))
            /\ Count(blocks, {"alloca"}) =
                 Cardinality({<<f, nm>> \in (DOMAIN envs) \X VarNames :
                                nm \in DOMAIN envs[f].records})]_vars

\* var x = 1; var x = 2; one alloca, one binding, the second store puts 2
\* into the storage of the first.
C7_Witness ==
    /\ op = "var"
    /\ ~crashed
    /\ cursor # 0
    /\ LET ins == blocks[cursor].instructions IN
         /\ Len(ins) = 3
         /\ ins[1].op = "alloca"
         /\ ins[2] = Instr("store", 0, Val("const", "i32", 1),
                           Val("inst", "i32*", ins[1].id), "None", 0, 0)
         /\ ins[3] = Instr("store", 0, Val("const", "i32", 2),
                           Val("inst", "i32*", ins[1].id), "None", 0, 0)
         /\ envs[env].records["x"] =
              Binding(Val("inst", "i32*", ins[1].id), "i32")

\* C8: a declaration of a name that the current frame does not bind but an
\* enclosing frame does allocates new storage, binds the name in the
\* current frame to it, stores into it and not into the outer storage, and
\* leaves the enclosing frames as they are.
C8_ShadowingDeclares ==
    [][(/\ DeclaresValue
        /\ node'.name.value \notin DOMAIN envs[env].records
        /\ lookup(envs, env, node'.name.value) # NoBinding) =>
         LET name == node'.name.value
             outer == lookup(envs, env, name)
         IN /\ Count(blocks', {"alloca"}) = Count(blocks, {"alloca"}) + 1
            /\ name \in DOMAIN envs'[env].records
            /\ envs'[env].records[name].h # outer.h
            /\ Last(blocks'[cursor].instructions).op = "store"
            /\ Last(blocks'[cursor].instructions).b # outer.h
            /\ \A f \in DOMAIN envs : f # env => envs'[f] = envs[f]]_vars

C10_UndeclaredReference ==
    [][(/\ \/ VisitVarStatement
           \/ VisitAssignStatement
           \/ VisitReturnStatement
           \/ VisitIfStatement
        /\ \E id \in Idents(ExprOf(node')) :
              lookup(envs, env, id) = NoBinding) =>
         /\ Len(errors') > Len(errors)
         /\ ~crashed']_vars

\* The two operands of a binary operation resolve to different primitive
\* categories, one integer and one floating.
MixedCategories(e) ==
    /\ e.type = "InfixExpression"
    /\ LET l == resolve_value(e.left_node, blocks, nextId)
           r == resolve_value(e.right_node, blocks, nextId)
       IN /\ l.ok
          /\ r.ok
          /\ \/ IsIntType(l.ty) /\ IsFloatType(r.ty)
             \/ IsFloatType(l.ty) /\ IsIntType(r.ty)

ArithmeticOps ==
    {"add", "sub", "mul", "sdiv", "srem", "fadd", "fsub", "fmul", "fdiv",
     "frem", "icmp", "fcmp"}

\* C11: lowering, in a function body, a statement whose expression is a
\* binary operation between an integer and a floating operand emits no
\* arithmetic or
\* comparison instruction and records a diagnostic.
C11_MixedCategoriesReported ==
    [][(/\ \/ VisitVarStatement
           \/ VisitAssignStatement
           \/ VisitReturnStatement
           \/ VisitIfStatement
        /\ cursor # 0
        /\ MixedCategories(ExprOf(node'))) =>
         /\ Count(blocks', ArithmeticOps) = Count(blocks, ArithmeticOps)
         /\ Len(errors') > Len(errors)]_vars

\* C17: once compile() has been left, by returning or by an exception
\* raised while a function body was being lowered, the current frame is
\* the global frame and the builder is the one the compiler started with:
\* every function statement has put back the frame and the builder it
\* found.
C17_ScopeAndBuilderRestored ==
    (crashed \/ stack = <<>>) => (env = 1 /\ cursor = 0)

(***************************************************************************)
(*                 Properties of the parser on any stream                  *)
(***************************************************************************)
\* The statement at the current token is a function whose block ran into
\* the end of the input.
BlockHitsEOF ==
    LET r == parse_statement(pos, perrors) IN
    /\ TokAt(pos).type = "FN"
    /\ r.node # None
    /\ r.node.type = "FunctionStatement"
    /\ TokAt(r.pos).type = "EOF"

\* C15: when the input ends before the closing brace of a function body, the
\* parser appends a diagnostic for the unterminated block.
C15_UnterminatedBlockReported ==
    [][(ParseStatement /\ BlockHitsEOF) => Len(perrors') > Len(perrors)]_vars

\* From position p the tokens are var IDENT : TYPE = expression ; with
\* the semicolon right after the expression.
DeclShapeAt(p) ==
    /\ TokAt(p).type = "VAR"
    /\ TokAt(p + 1).type = "IDENT"
    /\ TokAt(p + 2).type = "COLON"
    /\ TokAt(p + 3).type = "TYPE"
    /\ TokAt(p + 4).type = "EQ"
    /\ LET r == parse_expression(p + 5, <<>>, P_LOWEST) IN
         /\ r.errors = <<>>
         /\ TokAt(r.pos + 1).type = "SEMICOLON"

\* C16: a statement that starts with var is accepted as a declaration
\* without a diagnostic only when it has the shape var IDENT : TYPE =
\* expression ; .
C16_DeclarationShape ==
    [][(/\ ParseStatement
        /\ TokAt(pos).type = "VAR"
        /\ perrors' = perrors
        /\ Len(program') > Len(program)) => DeclShapeAt(pos)]_vars

\* C18: every iteration of the statement loops, of parse_program and of a
\* block, ends beyond the token it started on, and parse_program returns;
\* a statement that fails leaves its diagnostics in the error list.
C18_ParseProgramTerminates ==
    /\ [][ParseStatement =>
            /\ pos' > pos
            /\ \A q \in 1..Len(tokens) : parse_statement(q, <<>>).pos >= q
            /\ parse_statement(pos, perrors).node = None =>
                 Len(perrors') > Len(perrors)]_vars
    /\ <>pdone

\* parse_program returned after two statements failed, the first of them on
\* the first token.
C18_Witness ==
    /\ pdone
    /\ Len(perrors) >= 2
    /\ tokens # <<>>
    /\ parse_statement(1, <<>>).node = None
    /\ parse_statement(1, <<>>).pos + 1 <= Len(tokens)

RECURSIVE PopulatedExpression(_)
PopulatedExpression(n) ==
    /\ n # None
    /\ n.type = "InfixExpression" =>
         /\ PopulatedExpression(n.left_node)
         /\ PopulatedExpression(n.right_node)

RECURSIVE PopulatedStatement(_)
PopulatedStatement(st) ==
    /\ st # None
    /\ CASE st.type = "ExpressionStatement" -> PopulatedExpression(st.expr)
         [] st.type = "VarStatement" ->
              /\ PopulatedExpression(st.name)
              /\ PopulatedExpression(st.value)
         [] st.type = "ReturnStatement" -> PopulatedExpression(st.return_value)
         [] st.type = "AssignStatement" ->
              /\ PopulatedExpression(st.ident)
              /\ PopulatedExpression(st.right_value)
         [] st.type = "BlockStatement" ->
              \A i \in DOMAIN st.statements : PopulatedStatement(st.statements[i])
         [] st.type = "FunctionStatement" ->
              /\ PopulatedExpression(st.name)
              /\ PopulatedStatement(st.body)

\* C19: a program returned with an empty error list has every child of
\* every node populated.
C19_CleanParseIsPopulated ==
    (pdone /\ perrors = <<>>) =>
        \A i \in DOMAIN program : PopulatedStatement(program[i])

\* A function holding a declaration and a return was parsed without a
\* diagnostic.
C19_Witness ==
    /\ pdone
    /\ perrors = <<>>
    /\ Len(program) = 1
    /\ program[1].type = "FunctionStatement"
    /\ Len(program[1].body.statements) = 2
    /\ program[1].body.statements[2].type = "ReturnStatement"

(***************************************************************************)
(*                        Properties of the driver                         *)
(***************************************************************************)
\* C12: the compiler runs only after a parse without diagnostics, and the
\* module is verified, JIT-compiled and executed only after a compile
\* without diagnostics.
C12_HardGate ==
    /\ stage \in {"compile", "raised", "run"} => perrors = <<>>
    /\ stage = "run" => errors = <<>>

(***************************************************************************)
(*                      Properties of the scope chain                      *)
(***************************************************************************)
\* The frames from frame i outward: i, its parent, the parent's parent ...
RECURSIVE Outward(_, _)
Outward(frames, i) ==
    IF i = 0 THEN <<>> ELSE <<i>> \o Outward(frames, frames[i].parent)

\* The positions of Outward(frames, i) whose frame binds name.
Holders(frames, i, name) ==
    {k \in DOMAIN Outward(frames, i) :
       name \in DOMAIN frames[Outward(frames, i)[k]].records}

\* The binding of name in the nearest frame that has one.
Nearest(frames, i, name) ==
    LET hs == Holders(frames, i, name)
        k == CHOOSE m \in hs : \A o \in hs : m <= o
    IN IF hs = {} THEN NoBinding
       ELSE frames[Outward(frames, i)[k]].records[name]

\* C13: lookup on a frame returns the binding of the nearest frame, from
\* that frame outward, that binds the name, returns None exactly when no
\* frame on the chain binds it, and changes no frame.
C13_LookupNearest ==
    [][\A i \in 1..Len(envs), name \in EnvNames :
         lookup_call(i, name) =>
           /\ returned' = Nearest(envs, i, name)
           /\ (returned' = NoBinding) = (Holders(envs, i, name) = {})
           /\ envs' = envs]_vars

\* lookup of x on a frame that does not bind it returned the binding of
\* the parent, which is not the one the grandparent holds.
C13_Witness ==
    /\ Len(envs) = 3
    /\ env = 3
    /\ envs[3].parent = 2
    /\ envs[2].parent = 1
    /\ DOMAIN envs[3].records = {}
    /\ DOMAIN envs[2].records = {"x"}
    /\ DOMAIN envs[1].records = {"x"}
    /\ envs[2].records["x"] # envs[1].records["x"]
    /\ returned = envs[2].records["x"]

\* C14: define on a frame binds the name to (value, type) in that frame,
\* returns the value, and leaves the other names of the frame and every
\* other frame as they were.
C14_DefineFrameEffect ==
    [][\A i \in 1..Len(envs), name \in EnvNames, value \in EnvValues,
          type \in EnvTypes :
         define_call(i, name, value, type) =>
           /\ Len(envs') = Len(envs)
           /\ DOMAIN envs'[i].records = DOMAIN envs[i].records \cup {name}
           /\ envs'[i].records[name] = Binding(value, type)
           /\ returned' = value
           /\ \A m \in DOMAIN envs[i].records \ {name} :
                envs'[i].records[m] = envs[i].records[m]
           /\ envs'[i].parent = envs[i].parent
           /\ \A j \in 1..Len(envs) \ {i} : envs'[j] = envs[j]]_vars

\* The last call, on a frame that binds x and y and whose parent binds x
\* to something else, returned what the frame binds x to.
C14_Witness ==
    /\ Len(envs) >= 2
    /\ env = 2
    /\ envs[2].parent = 1
    /\ DOMAIN envs[2].records = {"x", "y"}
    /\ DOMAIN envs[1].records = {"x"}
    /\ returned = envs[2].records["x"].h
    /\ returned # envs[2].records["y"].h
    /\ returned # envs[1].records["x"].h

====
